---------------------------- MODULE Spec2Model ----------------------------
(***************************************************************************)
(* VibeCraft (src/App.tsx): the voxel world, the first-person physics tick *)
(* and the pointer interaction (highlight, timed destruction, placement).  *)
(*                                                                         *)
(* Lengths are integers in hundredths of a block (0.01 -> 1), so GRAVITY,  *)
(* JUMP_FORCE, the player box and the move speed are exact.  Block         *)
(* positions are JavaScript numbers: a coordinate is a pair [g, r], the    *)
(* number g + r * 2^-53 / 1000, which is what lets the model say what      *)
(* Vector3.add and === do to a coordinate that is not a whole number.      *)
(***************************************************************************)
EXTENDS Integers, Sequences, FiniteSets, TLC

VARIABLES
    blocks,                  \* blocks.current: the array of Block objects
    nextId,                  \* identity of the next Mesh created by createBlock
    highlightedBlockRef,     \* id of the highlighted Block, 0 for null
    inventory,               \* React state: array of [type, count]
    selectedBlockIndex,      \* React state: index into inventory (1-based here)
    camera,                  \* cameraRef.current.position, hundredths
    eulerRef,                \* [yaw: quarter turns, pitch: degrees, roll]
    playerVelocity,          \* playerVelocity.current.y, hundredths per tick
    playerOnGround,          \* playerOnGround.current
    moveState,               \* moveState.current
    isPanning,               \* shared value isPanning
    isDestructionInProgress, \* shared value isDestructionInProgress
    timer,                   \* the withTiming animation of destructionProgress
    touch,                   \* state of the gesture on the GLView and its point
    last,                    \* what the last handler did (observation only)
    ticks,                   \* frames the animation loop has run
    step                     \* position in the input script (SpecScenario)

vars == << blocks, nextId, highlightedBlockRef, inventory, selectedBlockIndex,
           camera, eulerRef, playerVelocity, playerOnGround, moveState,
           isPanning, isDestructionInProgress, timer, touch, last, ticks, step >>

-----------------------------------------------------------------------------
(* Program constants, lengths in hundredths.                               *)

BLOCK_SIZE == 100
GRAVITY == 1
JUMP_FORCE == 15
PLAYER_HEIGHT == 160
PLAYER_WIDTH == 60
moveSpeed == 10
bedrockLevel == -7
\* Math.PI * 0.45, in degrees
maxVerticalRotation == 81
\* withTiming(1, {duration: 800})
DestructionDuration == 800
\* camera.position.set(WORLD_SIZE / 2, 5, WORLD_SIZE / 2)
SpawnHeight == 500
\* WORLD_SIZE of the source, the side of the world SpecTerrain generates
FullWorldSize == 10

(* Bounds of the model.                                                    *)
\* 10 in the source; the model generates the first WORLD_SIZE x WORLD_SIZE
\* columns of the terrain and spawns the player over their middle
WORLD_SIZE == 2
\* 64 in the source: what every inventory slot starts with
InitialCount == 1
\* frames the animation loop runs in a behaviour of Spec
MaxTicks == 1
\* cells a ray is followed through; what lies farther is out of its reach
MaxRaySteps == 6

Abs(n) == IF n < 0 THEN -n ELSE n
Min(a, b) == IF a < b THEN a ELSE b
Max(a, b) == IF a > b THEN a ELSE b
Sign(n) == IF n < 0 THEN -1 ELSE IF n > 0 THEN 1 ELSE 0

-----------------------------------------------------------------------------
(* JavaScript numbers near the grid.  r counts units of 2^-53 / 1000, so   *)
(* 2^-53 is 1000 units and the spacing of doubles in [1, 2) is 2000.       *)

HalfUlpOne == 1000

N(g) == [g |-> g, r |-> 0]

RECURSIVE Binade(_)
Binade(a) == IF a < 2 THEN 1 ELSE 2 * Binade(a \div 2)

\* spacing of the doubles on the side of |g| the residue rr points to
Spacing(a, rr) ==
    IF rr < 0 /\ Binade(a) = a
    THEN Binade(a) * HalfUlpOne
    ELSE Binade(a) * 2 * HalfUlpOne

\* rr / sp rounded to the nearest integer, ties to even
RoundHalfEven(rr, sp) ==
    LET q == rr \div sp
        rem == rr - q * sp
    IN  IF 2 * rem < sp THEN q
        ELSE IF 2 * rem > sp THEN q + 1
        ELSE IF q % 2 = 0 THEN q ELSE q + 1

\* the double nearest to g + r units: exact next to 0, rounded next to g # 0
FRound(g, r) ==
    IF g = 0 \/ r = 0 THEN [g |-> g, r |-> r]
    ELSE LET s == Sign(g)
             sp == Spacing(Abs(g), s * r)
         IN  [g |-> g, r |-> s * sp * RoundHalfEven(s * r, sp)]

\* a + b of two numbers: the exact sum, correctly rounded
FAdd(a, b) == FRound(a.g + b.g, a.r + b.r)

\* a * c for c in {-1, 0, 1}: exact
FScale(a, c) == [g |-> a.g * c, r |-> a.r * c]

\* Vector3.add
VecAdd(p, n) == << FAdd(p[1], n[1]), FAdd(p[2], n[2]), FAdd(p[3], n[3]) >>

P(x, y, z) == << N(x), N(y), N(z) >>

\* the grid cell a coordinate lies in
Cell(p) == << p[1].g, p[2].g, p[3].g >>

-----------------------------------------------------------------------------
(* mesh.rotation.y = floor(random * 4) * PI / 2 and what matrixWorld holds *)
(* for it: Quaternion.setFromEuler gives (0, sin(y/2), 0, cos(y/2)) and    *)
(* Matrix4.compose gives te0 = te10 = 1 - 2yy and te8 = -te2 = 2wy, which  *)
(* in doubles are 1, 0 / 2^-52, 1 / -1, 1.2246e-16 / -2^-52, -1.           *)

RotCos(k) ==
    CASE k = 0 -> N(1)
      [] k = 1 -> [g |-> 0, r |-> 2 * HalfUlpOne]
      [] k = 2 -> N(-1)
      [] k = 3 -> [g |-> 0, r |-> -2 * HalfUlpOne]

RotSin(k) ==
    CASE k = 0 -> N(0)
      [] k = 1 -> N(1)
      [] k = 2 -> [g |-> 0, r |-> 1103]
      [] k = 3 -> N(-1)

\* Vector3.transformDirection(matrixWorld) of a local face normal n (a unit
\* axis vector); the normalize() that ends it divides by a length of 1
transformDirection(n, k) ==
    << FAdd(FScale(RotCos(k), n[1]), FScale(RotSin(k), n[3])),
       N(n[2]),
       FAdd(FScale(RotSin(k), -n[1]), FScale(RotCos(k), n[3])) >>

\* the face of the BoxGeometry whose outward normal points along the world
\* axis w when the mesh is turned k quarter turns about Y: intersects[0].face.normal
LocalFaceNormal(w, k) ==
    LET c == CASE k = 0 -> 1 [] k = 1 -> 0 [] k = 2 -> -1 [] k = 3 -> 0
        s == CASE k = 0 -> 0 [] k = 1 -> 1 [] k = 2 -> 0 [] k = 3 -> -1
    IN  << c * w[1] - s * w[3], w[2], s * w[1] + c * w[3] >>

-----------------------------------------------------------------------------
(* Blocks.  A Block is [id, position, type, rot, highlightEdges]: id is    *)
(* the identity of its Mesh, rot the quarter turns of mesh.rotation.y.     *)

\* createBlock: the Block it pushes (the draw of Math.random is rot)
createBlock(id, position, type, rot) ==
    [ id |-> id, position |-> position, type |-> type,
      rot |-> IF type # "bedrock" THEN rot ELSE 0,
      highlightEdges |-> FALSE ]

(* noise and noise3D hash the coordinates through Math.sin; the tables are *)
(* the values the source's formulas give for x, z in 0..9 (row x + 1,      *)
(* column z + 1).                                                          *)

\* floor(noise(x,z,0.1,4) + noise(x,z,0.2,2) + noise(x,z,0.5,1))
BaseHeightFloor ==
    << <<3, 3, 3, 3, 3, 3, 3, 3, 3, 3>>,
       <<3, 3, 3, 3, 3, 3, 3, 3, 3, 3>>,
       <<3, 3, 3, 3, 4, 4, 3, 3, 3, 3>>,
       <<3, 3, 3, 3, 4, 4, 3, 3, 3, 3>>,
       <<3, 3, 4, 4, 3, 3, 4, 4, 4, 4>>,
       <<3, 3, 4, 4, 3, 2, 3, 3, 3, 3>>,
       <<3, 3, 3, 3, 3, 3, 3, 3, 3, 3>>,
       <<3, 3, 3, 3, 3, 3, 3, 3, 3, 3>>,
       <<3, 3, 3, 3, 2, 2, 2, 2, 2, 2>>,
       <<3, 3, 3, 3, 2, 2, 2, 2, 2, 2>> >>

\* noise(x,z,0.3,1) > 0.8 && baseHeight > 3
RockyOutcrop ==
    << <<FALSE, FALSE, FALSE, FALSE, FALSE, FALSE, FALSE, FALSE, FALSE, FALSE>>,
       <<FALSE, FALSE, FALSE, FALSE, FALSE, FALSE, FALSE, FALSE, FALSE, FALSE>>,
       <<FALSE, FALSE, FALSE, FALSE, FALSE, FALSE, FALSE, FALSE, FALSE, FALSE>>,
       <<FALSE, FALSE, FALSE, FALSE, FALSE, FALSE, FALSE, FALSE, FALSE, FALSE>>,
       <<FALSE, FALSE, FALSE, FALSE, FALSE, FALSE, FALSE, TRUE, TRUE, TRUE>>,
       <<FALSE, FALSE, FALSE, FALSE, FALSE, FALSE, FALSE, TRUE, TRUE, TRUE>>,
       <<FALSE, FALSE, FALSE, FALSE, FALSE, FALSE, FALSE, TRUE, TRUE, TRUE>>,
       <<FALSE, FALSE, FALSE, FALSE, TRUE, TRUE, TRUE, FALSE, FALSE, FALSE>>,
       <<FALSE, FALSE, FALSE, FALSE, FALSE, FALSE, FALSE, FALSE, FALSE, FALSE>>,
       <<FALSE, FALSE, FALSE, FALSE, FALSE, FALSE, FALSE, FALSE, FALSE, FALSE>> >>

\* floor(noise(x,z,0.4,2))
DirtNoiseFloor ==
    << <<1, 1, 1, 1, 1, 0, 0, 0, 0, 0>>,
       <<1, 1, 1, 1, 1, 0, 0, 0, 0, 0>>,
       <<1, 1, 1, 1, 1, 0, 0, 0, 0, 0>>,
       <<1, 1, 1, 0, 0, 2, 2, 2, 1, 1>>,
       <<1, 1, 1, 0, 0, 2, 2, 2, 1, 1>>,
       <<0, 0, 0, 2, 2, 0, 0, 0, 2, 2>>,
       <<0, 0, 0, 2, 2, 0, 0, 0, 2, 2>>,
       <<0, 0, 0, 2, 2, 0, 0, 0, 2, 2>>,
       <<1, 1, 1, 1, 1, 1, 1, 1, 1, 1>>,
       <<1, 1, 1, 1, 1, 1, 1, 1, 1, 1>> >>

\* the y in 1..13 with noise3D(x,y,z) > 0.9
DirtPockets ==
    << <<{}, {}, {10, 11}, {10, 11}, {8, 9}, {8, 9}, {2, 3}, {2, 3}, {6, 7, 12, 13}, {6, 7, 12, 13}>>,
       <<{}, {}, {10, 11}, {10, 11}, {8, 9}, {8, 9}, {2, 3}, {2, 3}, {6, 7, 12, 13}, {6, 7, 12, 13}>>,
       <<{}, {}, {8, 9}, {8, 9}, {1}, {1}, {4, 5, 10, 11}, {4, 5, 10, 11}, {}, {}>>,
       <<{}, {}, {8, 9}, {8, 9}, {1}, {1}, {4, 5, 10, 11}, {4, 5, 10, 11}, {}, {}>>,
       <<{10, 11}, {10, 11}, {8, 9}, {8, 9}, {2, 3, 10, 11}, {2, 3, 10, 11}, {}, {}, {2, 3, 12, 13}, {2, 3, 12, 13}>>,
       <<{10, 11}, {10, 11}, {8, 9}, {8, 9}, {2, 3, 10, 11}, {2, 3, 10, 11}, {}, {}, {2, 3, 12, 13}, {2, 3, 12, 13}>>,
       <<{1, 8, 9}, {1, 8, 9}, {}, {}, {}, {}, {4, 5, 12, 13}, {4, 5, 12, 13}, {6, 7, 8, 9}, {6, 7, 8, 9}>>,
       <<{1, 8, 9}, {1, 8, 9}, {}, {}, {}, {}, {4, 5, 12, 13}, {4, 5, 12, 13}, {6, 7, 8, 9}, {6, 7, 8, 9}>>,
       <<{2, 3, 4, 5}, {2, 3, 4, 5}, {2, 3, 4, 5}, {2, 3, 4, 5}, {12, 13}, {12, 13}, {6, 7}, {6, 7}, {2, 3}, {2, 3}>>,
       <<{2, 3, 4, 5}, {2, 3, 4, 5}, {2, 3, 4, 5}, {2, 3, 4, 5}, {12, 13}, {12, 13}, {6, 7}, {6, 7}, {2, 3}, {2, 3}>> >>

\* the leaf cells Math.random() > 0.8 skips, one outcome per seed
LeafSkipped(seed, y, lx, lz) == (seed + y + 2 * lx + 3 * lz) % 5 = 0

\* generateTree with a trunk that begins in the cell of the top block
\* (baseHeight + y for baseHeight + y + 1 at line 684)
generateTreeFromTheTopBlock(x, z, baseHeight, draw) ==
    LET trunk == [ y \in 1..draw.trunkHeight |->
                     [position |-> P(x, baseHeight + (y - 1), z), type |-> "wood"] ]
    IN  trunk

\* generateTree: the [position, type] of the blocks it creates, in order
generateTree(x, z, baseHeight, draw) ==
    LET trunk == [ y \in 1..draw.trunkHeight |->
                     [position |-> P(x, baseHeight + (y - 1) + 1, z), type |-> "wood"] ]
        leafRadius == 2
        leafStartHeight == draw.trunkHeight - 1
        layerRadius(y) ==
            IF y = 0 \/ y = draw.leafHeight - 1 THEN Max(1, leafRadius - 1) ELSE leafRadius
        side(y) == 2 * layerRadius(y) + 1
        lxOf(y, i) == ((i - 1) \div side(y)) - layerRadius(y)
        lzOf(y, i) == ((i - 1) % side(y)) - layerRadius(y)
        kept(y, i) ==
            /\ ~ (lxOf(y, i) * lxOf(y, i) + lzOf(y, i) * lzOf(y, i)
                    > layerRadius(y) * layerRadius(y) + 1)
            /\ ~ LeafSkipped(draw.skipSeed, y, lxOf(y, i), lzOf(y, i))
        layerCells(y) ==
            SelectSeq([i \in 1..(side(y) * side(y)) |-> i], LAMBDA i : kept(y, i))
        layer(y) ==
            [ j \in 1..Len(layerCells(y)) |->
                [ position |-> P(x + lxOf(y, layerCells(y)[j]),
                                 baseHeight + leafStartHeight + y,
                                 z + lzOf(y, layerCells(y)[j])),
                  type |-> "leaves" ] ]
        layers[y \in 0..draw.leafHeight] ==
            IF y = draw.leafHeight THEN << >> ELSE layer(y) \o layers[y + 1]
    IN  trunk \o layers[0]

\* what Math.random() < 0.05 and generateTree draw for a column
TreeDraws ==
    [ trunkHeight : 3..5, leafHeight : 2..3, skipSeed : 0..4 ]

\* the columns generateTerrain may plant a tree on
TreeColumns ==
    { c \in (0..(WORLD_SIZE - 1)) \X (0..(WORLD_SIZE - 1)) :
        /\ ~ RockyOutcrop[c[1] + 1][c[2] + 1]
        /\ c[1] > 2 /\ c[1] < WORLD_SIZE - 3
        /\ c[2] > 2 /\ c[2] < WORLD_SIZE - 3 }

\* the pass without the bedrock block of lines 794-798
generateColumnWithoutBedrock(x, z, trees) ==
    LET height == BaseHeightFloor[x + 1][z + 1] - 2
        topBlockType == IF RockyOutcrop[x + 1][z + 1] THEN "stone" ELSE "grass"
        dirtDepth == IF topBlockType = "stone" THEN 1
                     ELSE DirtNoiseFloor[x + 1][z + 1] + 2
        lastStone == Abs(bedrockLevel - height)
        top == << [position |-> P(x, height, z), type |-> topBlockType] >>
        dirt == [ y \in 1..dirtDepth |->
                    [position |-> P(x, height - y, z), type |-> "dirt"] ]
        stone == [ i \in 1..(lastStone - dirtDepth) |->
                    [ position |-> P(x, height - (dirtDepth + i), z),
                      type |-> IF (dirtDepth + i) \in DirtPockets[x + 1][z + 1]
                               THEN "dirt" ELSE "stone" ] ]
        tree == IF << x, z >> \in DOMAIN trees
                THEN generateTree(x, z, height, trees[<< x, z >>])
                ELSE << >>
    IN  top \o dirt \o stone \o tree

\* one pass of the body of generateTerrain's double loop: the [position, type]
\* of the blocks column (x, z) creates, in order; trees maps the columns
\* that drew a tree to their draws
generateColumn(x, z, trees) ==
    LET height == BaseHeightFloor[x + 1][z + 1] - 2
        topBlockType == IF RockyOutcrop[x + 1][z + 1] THEN "stone" ELSE "grass"
        dirtDepth == IF topBlockType = "stone" THEN 1
                     ELSE DirtNoiseFloor[x + 1][z + 1] + 2
        lastStone == Abs(bedrockLevel - height)
        top == << [position |-> P(x, height, z), type |-> topBlockType] >>
        dirt == [ y \in 1..dirtDepth |->
                    [position |-> P(x, height - y, z), type |-> "dirt"] ]
        stone == [ i \in 1..(lastStone - dirtDepth) |->
                    [ position |-> P(x, height - (dirtDepth + i), z),
                      type |-> IF (dirtDepth + i) \in DirtPockets[x + 1][z + 1]
                               THEN "dirt" ELSE "stone" ] ]
        bedrock == << [position |-> P(x, bedrockLevel, z), type |-> "bedrock"] >>
        tree == IF << x, z >> \in DOMAIN trees
                THEN generateTree(x, z, height, trees[<< x, z >>])
                ELSE << >>
    IN  top \o dirt \o stone \o bedrock \o tree

\* the quarter turn createBlock draws for the i-th block, one outcome per seed
DrawnRotation(seed, i) == (seed + i + (i \div 4)) % 4

\* generateTerrain: blocks.current after it, columns in the order x, then z
generateTerrain(trees, rotSeed) ==
    LET cols[c \in 0..(WORLD_SIZE * WORLD_SIZE)] ==
            IF c = WORLD_SIZE * WORLD_SIZE THEN << >>
            ELSE generateColumn(c \div WORLD_SIZE, c % WORLD_SIZE, trees) \o cols[c + 1]
    IN  [ i \in 1..Len(cols[0]) |->
            createBlock(i, cols[0][i].position, cols[0][i].type,
                        DrawnRotation(rotSeed, i)) ]

-----------------------------------------------------------------------------
(* Raycaster.setFromCamera + intersectObjects(meshes, false).  A screen    *)
(* point is the angle, in degrees, of the touch above the centre of the    *)
(* screen on its vertical centre line; the model follows the rays that run *)
(* along an axis or a 45-degree diagonal of the grid, cell by cell.        *)

ScreenPoints == {-36, -9, 0, 9, 36}

RayElevations == {-90, -45, 0, 45, 90}

\* camera.quaternion applied to (0, 0, -1) and to (1, 0, 0), y dropped
Forward(yaw) ==
    CASE yaw = 0 -> << 0, 0, -1 >> [] yaw = 1 -> << -1, 0, 0 >>
      [] yaw = 2 -> << 0, 0, 1 >>  [] yaw = 3 -> << 1, 0, 0 >>

Right(yaw) ==
    CASE yaw = 0 -> << 1, 0, 0 >>  [] yaw = 1 -> << 0, 0, -1 >>
      [] yaw = 2 -> << -1, 0, 0 >> [] yaw = 3 -> << 0, 0, 1 >>

Elevation(euler, sp) == euler.pitch + sp

RayDirection(euler, sp) ==
    LET e == Elevation(euler, sp)
        f == Forward(euler.yaw)
    IN  CASE e = -90 -> << 0, -1, 0 >>
          [] e = 90  -> << 0, 1, 0 >>
          [] e = 0   -> f
          [] e = -45 -> << f[1], -1, f[3] >>
          [] e = 45  -> << f[1], 1, f[3] >>

\* the unit cube of cell c spans c * 100 - 50 .. c * 100 + 50 on every axis
CellOf(v) == (v + (BLOCK_SIZE \div 2)) \div BLOCK_SIZE

\* index of the first block of bs in cell c, 0 when the cell is empty
FirstBlockIn(bs, c) ==
    LET inside == { i \in 1..Len(bs) : Cell(bs[i].position) = c }
    IN  IF inside = {} THEN 0
        ELSE CHOOSE i \in inside : \A j \in inside : i <= j

NoHit == [block |-> 0, normal |-> << 0, 0, 0 >>, cell |-> << 0, 0, 0 >>]

\* distance along the ray to the face through which it leaves cell c on axis a
ExitDistance(p, d, c, a) ==
    IF d[a] > 0 THEN (c[a] * BLOCK_SIZE + (BLOCK_SIZE \div 2)) - p[a]
    ELSE IF d[a] < 0 THEN p[a] - (c[a] * BLOCK_SIZE - (BLOCK_SIZE \div 2))
    ELSE 1000000

\* the axis on which the ray leaves cell c
ExitAxis(p, d, c) ==
    CHOOSE a \in 1..3 :
        /\ d[a] # 0
        /\ \A b \in 1..3 : ExitDistance(p, d, c, a) <= ExitDistance(p, d, c, b)
        /\ \A b \in 1..(a - 1) : ExitDistance(p, d, c, b) > ExitDistance(p, d, c, a)

RECURSIVE Walk(_, _, _, _, _)
Walk(bs, p, d, c, n) ==
    IF n = 0 THEN NoHit
    ELSE LET a == ExitAxis(p, d, c)
             c2 == [c EXCEPT ![a] = c[a] + d[a]]
             i == FirstBlockIn(bs, c2)
         IN  IF i # 0
             THEN [ block |-> i,
                    normal |-> [b \in 1..3 |-> IF b = a THEN -d[a] ELSE 0],
                    cell |-> c2 ]
             ELSE Walk(bs, p, d, c2, n - 1)

\* intersects[0] of the ray through screen point sp: the nearest block (its
\* index in bs) and the world axis its hit face looks along.  The faces of a
\* block the camera is inside are back faces and are not hit.
Raycast(bs, cam, euler, sp) ==
    Walk(bs, << cam.x, cam.y, cam.z >>, RayDirection(euler, sp),
         << CellOf(cam.x), CellOf(cam.y), CellOf(cam.z) >>, MaxRaySteps)

-----------------------------------------------------------------------------
(* The world handlers.  Each is given as the value it leaves in the        *)
(* variables it writes.                                                    *)

RemoveAt(bs, i) == [ j \in 1..(Len(bs) - 1) |-> IF j < i THEN bs[j] ELSE bs[j + 1] ]

\* last: which world handler the last step ran (op; "tick" for a frame,
\* "release" for the release of the joystick, "none" for any other step that
\* ran none), the id of the block its ray hit, the face
\* normal and the position of that block, whether the cell the placement aims
\* at held a block, whether a block was placed, highlightedBlockRef as it
\* was before the handler ran, and, after a frame, whether its collision
\* loop flagged a horizontal collision
Idle == [op |-> "none", hit |-> 0, normal |-> << 0, 0, 0 >>, from |-> P(0, 0, 0),
         occupied |-> FALSE, placed |-> FALSE, ref |-> 0, collided |-> FALSE]

\* destructionProgress at rest.  target is the id of the block the running
\* session highlighted when it began, 0 for none (observation only)
TimerIdle == [running |-> FALSE, elapsed |-> 0, x |-> 0, target |-> 0]

\* the id of intersects[0].object for a touch at sp, 0 when nothing is hit
Target(sp) ==
    LET h == Raycast(blocks, camera, eulerRef, sp)
    IN  IF h.block # 0 THEN blocks[h.block].id ELSE 0

\* highlightBlock without its first statement: the previous highlight stays
highlightBlockKeepingPrevious(bs, ref, id) ==
    [ i \in 1..Len(bs) |->
        IF bs[i].id = id THEN [bs[i] EXCEPT !.highlightEdges = TRUE] ELSE bs[i] ]

\* highlightBlock(block): blocks.current after it, the block given by its id
highlightBlock(bs, ref, id) ==
    [ i \in 1..Len(bs) |->
        IF bs[i].id = id THEN [bs[i] EXCEPT !.highlightEdges = TRUE]
        ELSE IF bs[i].id = ref /\ ref # 0 /\ bs[i].highlightEdges
             THEN [bs[i] EXCEPT !.highlightEdges = FALSE]
             ELSE bs[i] ]

\* highlightBlockAtPosition with an else at line 927: a ray that hits no
\* block takes the highlight away
highlightBlockAtPositionClearingOnMiss(sp) ==
    LET h == Raycast(blocks, camera, eulerRef, sp)
    IN  /\ IF h.block # 0
           THEN /\ blocks' = highlightBlock(blocks, highlightedBlockRef, blocks[h.block].id)
                /\ highlightedBlockRef' = blocks[h.block].id
           ELSE /\ blocks' = [ i \in 1..Len(blocks) |->
                                 [blocks[i] EXCEPT !.highlightEdges = FALSE] ]
                /\ highlightedBlockRef' = 0
        /\ last' = [Idle EXCEPT !.op = "highlight",
                                !.hit = IF h.block # 0 THEN blocks[h.block].id ELSE 0,
                                !.ref = highlightedBlockRef]
        /\ UNCHANGED << nextId, inventory >>

\* highlightBlockAtPosition(x, y)
highlightBlockAtPosition(sp) ==
    LET h == Raycast(blocks, camera, eulerRef, sp)
    IN  /\ IF h.block # 0
           THEN /\ blocks' = highlightBlock(blocks, highlightedBlockRef, blocks[h.block].id)
                /\ highlightedBlockRef' = blocks[h.block].id
           ELSE UNCHANGED << blocks, highlightedBlockRef >>
        /\ last' = [Idle EXCEPT !.op = "highlight",
                                !.hit = IF h.block # 0 THEN blocks[h.block].id ELSE 0,
                                !.ref = highlightedBlockRef]
        /\ UNCHANGED << nextId, inventory >>

\* destroyBlockAtPosition without the test of lines 978-980: the reference
\* to the highlighted block outlives the block
destroyBlockAtPositionKeepingHighlight(sp) ==
    LET h == Raycast(blocks, camera, eulerRef, sp)
    IN  /\ isDestructionInProgress' = FALSE
        /\ timer' = TimerIdle
        /\ IF h.block # 0
           THEN blocks' = RemoveAt(blocks, h.block)
           ELSE UNCHANGED blocks
        /\ last' = [Idle EXCEPT !.op = "destroy",
                                !.hit = IF h.block # 0 THEN blocks[h.block].id ELSE 0,
                                !.ref = highlightedBlockRef]
        /\ UNCHANGED << nextId, inventory, highlightedBlockRef >>

\* destroyBlockAtPosition(x, y); writing destructionProgress.value ends the
\* animation that runs on it
destroyBlockAtPosition(sp) ==
    LET h == Raycast(blocks, camera, eulerRef, sp)
    IN  /\ isDestructionInProgress' = FALSE
        /\ timer' = TimerIdle
        /\ IF h.block # 0
           THEN /\ blocks' = RemoveAt(blocks, h.block)
                /\ highlightedBlockRef' =
                      IF highlightedBlockRef = blocks[h.block].id THEN 0
                      ELSE highlightedBlockRef
           ELSE UNCHANGED << blocks, highlightedBlockRef >>
        /\ last' = [Idle EXCEPT !.op = "destroy",
                                !.hit = IF h.block # 0 THEN blocks[h.block].id ELSE 0,
                                !.ref = highlightedBlockRef]
        /\ UNCHANGED << nextId, inventory >>

\* newPosition of addBlockAtPosition for a hit h
newPosition(bs, h) ==
    VecAdd(bs[h.block].position,
           transformDirection(LocalFaceNormal(h.normal, bs[h.block].rot),
                              bs[h.block].rot))

\* blocks.current.some(block => block.position.x === newPosition.x && ...)
blockExists(bs, pos) == \E i \in 1..Len(bs) : bs[i].position = pos

\* addBlockAtPosition without the inventory update of lines 1054-1059
addBlockAtPositionKeepingCount(sp, rot) ==
    LET h == Raycast(blocks, camera, eulerRef, sp)
        attempt == inventory[selectedBlockIndex].count > 0 /\ h.block # 0
        pos == newPosition(blocks, h)
        place == attempt /\ ~ blockExists(blocks, pos)
    IN  /\ IF place
           THEN /\ blocks' = Append(blocks,
                      createBlock(nextId, pos, inventory[selectedBlockIndex].type, rot))
                /\ nextId' = nextId + 1
           ELSE UNCHANGED << blocks, nextId >>
        /\ last' = [Idle EXCEPT !.op = "add", !.placed = place]
        /\ UNCHANGED << inventory, highlightedBlockRef >>

\* addBlockAtPosition(x, y); rot is the quarter turn createBlock draws
addBlockAtPosition(sp, rot) ==
    LET h == Raycast(blocks, camera, eulerRef, sp)
        attempt == inventory[selectedBlockIndex].count > 0 /\ h.block # 0
        pos == newPosition(blocks, h)
        target == [a \in 1..3 |-> h.cell[a] + h.normal[a]]
        place == attempt /\ ~ blockExists(blocks, pos)
    IN  /\ IF place
           THEN /\ blocks' = Append(blocks,
                      createBlock(nextId, pos, inventory[selectedBlockIndex].type, rot))
                /\ nextId' = nextId + 1
                /\ inventory' =
                      [inventory EXCEPT ![selectedBlockIndex].count =
                          IF @ > 0 THEN @ - 1 ELSE @]
           ELSE UNCHANGED << blocks, nextId, inventory >>
        /\ last' = [ op |-> "add",
                     hit |-> IF h.block # 0 THEN blocks[h.block].id ELSE 0,
                     normal |-> h.normal,
                     from |-> IF h.block # 0 THEN blocks[h.block].position ELSE P(0, 0, 0),
                     occupied |-> attempt /\ FirstBlockIn(blocks, target) # 0,
                     placed |-> place,
                     ref |-> highlightedBlockRef,
                     collided |-> FALSE ]
        /\ UNCHANGED highlightedBlockRef

\* handleBlockSelection and addBlockAtPosition without their tests of
\* inventory[selectedBlockIndex].count
handleBlockSelectionIgnoringCount(sp, state, rot) ==
    LET h == Raycast(blocks, camera, eulerRef, sp)
        place == h.block # 0 /\ ~ blockExists(blocks, newPosition(blocks, h))
    IN  IF state = 5
        THEN /\ IF place
                THEN /\ blocks' = Append(blocks,
                           createBlock(nextId, newPosition(blocks, h),
                                       inventory[selectedBlockIndex].type, rot))
                     /\ nextId' = nextId + 1
                     /\ inventory' = [inventory EXCEPT ![selectedBlockIndex].count = @ - 1]
                ELSE UNCHANGED << blocks, nextId, inventory >>
             /\ last' = [Idle EXCEPT !.op = "add", !.placed = place]
             /\ UNCHANGED highlightedBlockRef
        ELSE highlightBlockAtPosition(sp)

\* handleBlockSelection whose placing branch also highlights: a tap that
\* places a block moves the highlight to the block it placed
handleBlockSelectionDoingBoth(sp, state, rot) ==
    LET h == Raycast(blocks, camera, eulerRef, sp)
        pos == newPosition(blocks, h)
        place == h.block # 0 /\ ~ blockExists(blocks, pos)
        placed == Append(blocks,
                      createBlock(nextId, pos, inventory[selectedBlockIndex].type, rot))
    IN  IF state = 5 /\ inventory[selectedBlockIndex].count > 0
        THEN /\ IF place
                THEN /\ blocks' = highlightBlock(placed, highlightedBlockRef, nextId)
                     /\ highlightedBlockRef' = nextId
                     /\ nextId' = nextId + 1
                     /\ inventory' = [inventory EXCEPT ![selectedBlockIndex].count = @ - 1]
                ELSE UNCHANGED << blocks, highlightedBlockRef, nextId, inventory >>
             /\ last' = [Idle EXCEPT !.op = "add", !.placed = place]
        ELSE highlightBlockAtPosition(sp)

\* handleBlockSelection(event): state is event.state, 5 for END
handleBlockSelection(sp, state, rot) ==
    IF state = 5 /\ inventory[selectedBlockIndex].count > 0
    THEN addBlockAtPosition(sp, rot)
    ELSE highlightBlockAtPosition(sp)

\* cancelDestructionProgress()
cancelDestructionProgress ==
    IF isDestructionInProgress
    THEN /\ timer' = TimerIdle
         /\ isDestructionInProgress' = FALSE
    ELSE UNCHANGED << timer, isDestructionInProgress >>

\* stopCameraPan()
stopCameraPan ==
    /\ isPanning' = FALSE
    /\ moveState' = [moveState EXCEPT !.rotateX = 0, !.rotateY = 0]

player == << camera, eulerRef, playerVelocity, playerOnGround, ticks >>

-----------------------------------------------------------------------------
(* The player: the joystick, the jump button and the frame loop.           *)

\* handleMovementJoystick(x, y), x and y in tenths
handleMovementJoystick(x, y) ==
    /\ moveState' = [moveState EXCEPT !.forward = (y < -2), !.backward = (y > 2),
                                      !.left = (x < -2), !.right = (x > 2)]
    /\ last' = Idle
    /\ UNCHANGED << blocks, nextId, highlightedBlockRef, inventory, selectedBlockIndex,
                    player, isPanning, isDestructionInProgress, timer, touch >>

\* handleJoystickRelease()
handleJoystickRelease ==
    /\ moveState' = [forward |-> FALSE, backward |-> FALSE, left |-> FALSE,
                     right |-> FALSE, rotateX |-> 0, rotateY |-> 0, jump |-> FALSE]
    /\ last' = [Idle EXCEPT !.op = "release"]
    /\ UNCHANGED << blocks, nextId, highlightedBlockRef, inventory, selectedBlockIndex,
                    player, isPanning, isDestructionInProgress, timer, touch >>

\* handleJump without the test of playerOnGround.current of line 174
handleJumpInMidAir(value) ==
    /\ moveState' = [moveState EXCEPT !.jump = value]
    /\ IF value
       THEN /\ playerVelocity' = JUMP_FORCE
            /\ playerOnGround' = FALSE
       ELSE UNCHANGED << playerVelocity, playerOnGround >>
    /\ last' = Idle
    /\ UNCHANGED << blocks, nextId, highlightedBlockRef, inventory, selectedBlockIndex,
                    camera, eulerRef, ticks, isPanning, isDestructionInProgress, timer, touch >>

\* handleJump(value)
handleJump(value) ==
    /\ moveState' = [moveState EXCEPT !.jump = value]
    /\ IF playerOnGround /\ value
       THEN /\ playerVelocity' = JUMP_FORCE
            /\ playerOnGround' = FALSE
       ELSE UNCHANGED << playerVelocity, playerOnGround >>
    /\ last' = Idle
    /\ UNCHANGED << blocks, nextId, highlightedBlockRef, inventory, selectedBlockIndex,
                    camera, eulerRef, ticks, isPanning, isDestructionInProgress, timer, touch >>

\* moveDirection of updatePlayerPosition: the sum of the intended directions,
\* normalized and scaled by moveSpeed (7 stands for 10 / sqrt(2))
moveDirection(ms, yaw) ==
    LET f == Forward(yaw)
        r == Right(yaw)
        k(b) == IF b THEN 1 ELSE 0
        sx == (k(ms.forward) - k(ms.backward)) * f[1] + (k(ms.right) - k(ms.left)) * r[1]
        sz == (k(ms.forward) - k(ms.backward)) * f[3] + (k(ms.right) - k(ms.left)) * r[3]
        len == IF sx # 0 /\ sz # 0 THEN 7 ELSE moveSpeed
    IN  << sx * len, sz * len >>

\* playerCollider.intersectsBox(blockBox) for the collider around newPosition
intersectsBox(np, b) ==
    LET c == Cell(b.position)
        h == BLOCK_SIZE \div 2
        w == PLAYER_WIDTH \div 2
    IN  /\ ~ (c[1] * BLOCK_SIZE + h < np.x - w \/ c[1] * BLOCK_SIZE - h > np.x + w)
        /\ ~ (c[2] * BLOCK_SIZE + h < np.y - PLAYER_HEIGHT \/ c[2] * BLOCK_SIZE - h > np.y)
        /\ ~ (c[3] * BLOCK_SIZE + h < np.z - w \/ c[3] * BLOCK_SIZE - h > np.z + w)

\* groundRay.intersectObject(block.mesh): the ray from camera.position straight
\* down, of length PLAYER_HEIGHT / 2 + 0.1, meets the top face of the block
groundRayHits(cam, b) ==
    LET c == Cell(b.position)
        h == BLOCK_SIZE \div 2
        top == c[2] * BLOCK_SIZE + h
    IN  /\ cam.x >= c[1] * BLOCK_SIZE - h /\ cam.x <= c[1] * BLOCK_SIZE + h
        /\ cam.z >= c[3] * BLOCK_SIZE - h /\ cam.z <= c[3] * BLOCK_SIZE + h
        /\ cam.y - top >= 0 /\ cam.y - top <= (PLAYER_HEIGHT \div 2) + 10

\* the collision loop without its else of lines 269-272: no horizontal
\* collision is ever flagged
collideNeverFlagging(bs, cam, np, vy) ==
    LET top(b) == Cell(b.position)[2] * BLOCK_SIZE + BLOCK_SIZE
        landing(b) == intersectsBox(np, b) /\ vy <= 0 /\ cam.y > top(b)
        L == { i \in 1..Len(bs) : landing(bs[i]) }
        lastL == CHOOSE i \in L : \A j \in L : j <= i
    IN  [ y |-> IF L # {} THEN top(bs[lastL]) + (PLAYER_HEIGHT \div 2) ELSE np.y,
          vy |-> IF L # {} THEN 0 ELSE vy,
          onGround |-> L # {} \/ \E i \in 1..Len(bs) : groundRayHits(cam, bs[i]),
          collided |-> FALSE ]

\* the collision loop of updatePlayerPosition over blocks.current, as what it
\* leaves in [y: newPosition.y, vy: playerVelocity.y, onGround, collided].
\* playerVelocity.y never rises in the loop, so whether a block is landed on
\* does not depend on the blocks before it; the last such block sets y.
collide(bs, cam, np, vy) ==
    LET top(b) == Cell(b.position)[2] * BLOCK_SIZE + BLOCK_SIZE
        landing(b) == intersectsBox(np, b) /\ vy <= 0 /\ cam.y > top(b)
        L == { i \in 1..Len(bs) : landing(bs[i]) }
        lastL == CHOOSE i \in L : \A j \in L : j <= i
    IN  [ y |-> IF L # {} THEN top(bs[lastL]) + (PLAYER_HEIGHT \div 2) ELSE np.y,
          vy |-> IF L # {} THEN 0 ELSE vy,
          onGround |-> L # {} \/ \E i \in 1..Len(bs) : groundRayHits(cam, bs[i]),
          collided |-> \E i \in 1..Len(bs) : intersectsBox(np, bs[i]) /\ ~ landing(bs[i]) ]

\* the rotation of lines 185-186 without the clamp of lines 189-194
ClampNothing(lo, v, hi) == v

Clamp(lo, v, hi) == Max(lo, Min(hi, v))

\* updatePlayerPosition without the gravity of lines 230-233
updatePlayerPositionWithoutGravity ==
    LET yaw == (eulerRef.yaw - moveState.rotateX) % 4
        pitch == Clamp(-maxVerticalRotation, eulerRef.pitch - moveState.rotateY,
                       maxVerticalRotation)
        md == moveDirection(moveState, yaw)
        jumps == moveState.jump /\ playerOnGround
        vy2 == IF jumps THEN JUMP_FORCE ELSE playerVelocity
        np == [x |-> camera.x + md[1], y |-> camera.y + vy2, z |-> camera.z + md[2]]
        r == collide(blocks, camera, np, vy2)
    IN  /\ eulerRef' = [eulerRef EXCEPT !.yaw = yaw, !.pitch = pitch]
        /\ playerVelocity' = r.vy
        /\ playerOnGround' = r.onGround
        /\ camera' = IF ~ r.collided THEN [x |-> np.x, y |-> r.y, z |-> np.z]
                     ELSE [camera EXCEPT !.y = r.y]

\* updatePlayerPosition(): one frame
updatePlayerPosition ==
    LET yaw == (eulerRef.yaw - moveState.rotateX) % 4
        pitch == Clamp(-maxVerticalRotation, eulerRef.pitch - moveState.rotateY,
                       maxVerticalRotation)
        md == moveDirection(moveState, yaw)
        vy1 == IF ~ playerOnGround THEN playerVelocity - GRAVITY ELSE playerVelocity
        jumps == moveState.jump /\ playerOnGround
        vy2 == IF jumps THEN JUMP_FORCE ELSE vy1
        np == [x |-> camera.x + md[1], y |-> camera.y + vy2, z |-> camera.z + md[2]]
        r == collide(blocks, camera, np, vy2)
    IN  /\ eulerRef' = [eulerRef EXCEPT !.yaw = yaw, !.pitch = pitch]
        /\ playerVelocity' = r.vy
        /\ playerOnGround' = r.onGround
        /\ camera' = IF ~ r.collided THEN [x |-> np.x, y |-> r.y, z |-> np.z]
                     ELSE [camera EXCEPT !.y = r.y]

\* playerVelocity.y after the gravity and the jump of lines 230-239
newVelocity ==
    IF moveState.jump /\ playerOnGround THEN JUMP_FORCE
    ELSE IF ~ playerOnGround THEN playerVelocity - GRAVITY
    ELSE playerVelocity

\* newPosition of updatePlayerPosition before the collision loop
playerNewPosition ==
    LET md == moveDirection(moveState, (eulerRef.yaw - moveState.rotateX) % 4)
    IN  [x |-> camera.x + md[1], y |-> camera.y + newVelocity, z |-> camera.z + md[2]]

Tick ==
    /\ updatePlayerPosition
    /\ ticks' = ticks + 1
    /\ last' = [Idle EXCEPT
                  !.op = "tick",
                  !.collided = collide(blocks, camera, playerNewPosition, newVelocity).collided]
    /\ UNCHANGED << blocks, nextId, highlightedBlockRef, inventory, selectedBlockIndex,
                    moveState, isPanning, isDestructionInProgress, timer, touch >>

-----------------------------------------------------------------------------
(* The inventory bar and the gestures on the GLView: Race(Pan,             *)
(* Exclusive(Tap, LongPress)).  touch.state is "none", "began" (a finger   *)
(* is down, no gesture active yet), "pan" or "longPress".                  *)

\* selectBlockFromInventory(index)
selectBlockFromInventory(index) ==
    /\ selectedBlockIndex' = index
    /\ last' = Idle
    /\ UNCHANGED << blocks, nextId, highlightedBlockRef, inventory, player, moveState,
                    isPanning, isDestructionInProgress, timer, touch >>

\* a finger goes down at sp: LongPress.onBegin runs handleBlockSelection
\* with event.state = BEGAN (2)
TouchDown(sp) ==
    /\ touch.state = "none"
    /\ Elevation(eulerRef, sp) \in RayElevations
    /\ touch' = [state |-> "began", x |-> sp]
    /\ handleBlockSelection(sp, 2, 0)
    /\ UNCHANGED << selectedBlockIndex, player, moveState, isPanning,
                    isDestructionInProgress, timer >>

\* the finger lifts before 500 ms: Tap.onEnd runs handleBlockSelection with
\* event.state = END (5); LongPress and Pan fail and run their onFinalize
TapEnd(rot) ==
    /\ touch.state = "began"
    /\ touch' = [state |-> "none", x |-> 0]
    /\ handleBlockSelection(touch.x, 5, rot)
    /\ cancelDestructionProgress
    /\ stopCameraPan
    /\ UNCHANGED << selectedBlockIndex, player >>

\* PanStart in a composition where Pan and LongPress run side by side: the
\* pan may begin under an active long press and cancels nothing
PanStartBesideLongPress ==
    /\ touch.state \in { "began", "longPress" }
    /\ touch' = [state |-> "pan", x |-> 0]
    /\ isPanning' = TRUE
    /\ last' = Idle
    /\ UNCHANGED << blocks, nextId, highlightedBlockRef, inventory, selectedBlockIndex,
                    player, moveState, isDestructionInProgress, timer >>

\* the finger moves 10 px: Pan.onStart runs startCameraPan, LongPress is
\* cancelled and runs its onFinalize
PanStart ==
    /\ touch.state = "began"
    /\ touch' = [state |-> "pan", x |-> 0]
    /\ isPanning' = TRUE
    /\ cancelDestructionProgress
    /\ last' = Idle
    /\ UNCHANGED << blocks, nextId, highlightedBlockRef, inventory, selectedBlockIndex,
                    player, moveState >>

\* Pan.onUpdate runs handleCameraPan(velocityX, velocityY); rx and ry are
\* what x * rotateSpeed * 0.01 and y * rotateSpeed * 0.01 come to, in
\* quarter turns and in degrees
handleCameraPan(rx, ry) ==
    /\ touch.state = "pan"
    /\ IF isPanning
       THEN moveState' = [moveState EXCEPT !.rotateX = rx, !.rotateY = ry]
       ELSE UNCHANGED moveState
    /\ last' = Idle
    /\ UNCHANGED << blocks, nextId, highlightedBlockRef, inventory, selectedBlockIndex,
                    player, isPanning, isDestructionInProgress, timer, touch >>

\* Pan.onEnd and Pan.onFinalize run stopCameraPan
PanEnd ==
    /\ touch.state = "pan"
    /\ touch' = [state |-> "none", x |-> 0]
    /\ stopCameraPan
    /\ last' = Idle
    /\ UNCHANGED << blocks, nextId, highlightedBlockRef, inventory, selectedBlockIndex,
                    player, isDestructionInProgress, timer >>

\* startDestructionProgress(x, y), run by LongPress.onStart after 500 ms;
\* Pan is cancelled and runs its onFinalize
LongPressStart ==
    /\ touch.state = "began"
    /\ touch' = [touch EXCEPT !.state = "longPress"]
    /\ isDestructionInProgress' = TRUE
    /\ highlightBlockAtPosition(touch.x)
    /\ timer' = [running |-> TRUE, elapsed |-> 0, x |-> touch.x, target |-> Target(touch.x)]
    /\ stopCameraPan
    /\ UNCHANGED << selectedBlockIndex, player >>

\* the finger lifts while the long press is active: LongPress.onEnd with
\* event.state = END (5) runs destroyBlockAtPosition, then onFinalize runs
\* cancelDestructionProgress, which finds no destruction in progress
LongPressRelease ==
    /\ touch.state = "longPress"
    /\ touch' = [state |-> "none", x |-> 0]
    /\ destroyBlockAtPosition(touch.x)
    /\ UNCHANGED << selectedBlockIndex, player, moveState, isPanning >>

\* the finger moves more than 10 px or the gesture is interrupted:
\* LongPress.onEnd with another state, then onFinalize, run
\* cancelDestructionProgress
LongPressCancel ==
    /\ touch.state = "longPress"
    /\ touch' = [state |-> "none", x |-> 0]
    /\ cancelDestructionProgress
    /\ last' = Idle
    /\ UNCHANGED << blocks, nextId, highlightedBlockRef, inventory, selectedBlockIndex,
                    player, moveState, isPanning >>

\* the animation of destructionProgress advances by dt ms; at 800 ms its
\* callback runs destroyBlockAtPosition(x, y) with finished = true
AnimationFrame(dt) ==
    /\ timer.running
    /\ IF timer.elapsed + dt >= DestructionDuration
       THEN destroyBlockAtPosition(timer.x)
       ELSE /\ timer' = [timer EXCEPT !.elapsed = timer.elapsed + dt]
            /\ last' = Idle
            /\ UNCHANGED << blocks, nextId, highlightedBlockRef, inventory,
                            isDestructionInProgress >>
    /\ UNCHANGED << selectedBlockIndex, player, moveState, isPanning, touch >>

-----------------------------------------------------------------------------
(* The state after onContextCreate.                                        *)

TreeChoices == UNION { [S -> TreeDraws] : S \in SUBSET TreeColumns }

RotSeeds == {1}

Init ==
    /\ \E trees \in TreeChoices, seed \in RotSeeds :
          blocks = generateTerrain(trees, seed)
    /\ nextId = Len(blocks) + 1
    /\ highlightedBlockRef = 0
    /\ inventory = [ i \in 1..6 |->
                       [ type |-> << "grass", "dirt", "stone", "bedrock", "wood", "leaves" >>[i],
                         count |-> InitialCount ] ]
    /\ selectedBlockIndex = 1
    /\ camera = [x |-> (WORLD_SIZE * BLOCK_SIZE) \div 2, y |-> SpawnHeight,
                 z |-> (WORLD_SIZE * BLOCK_SIZE) \div 2]
    /\ eulerRef = [yaw |-> 0, pitch |-> 0, roll |-> 0]
    /\ playerVelocity = 0
    /\ playerOnGround = FALSE
    /\ moveState = [forward |-> FALSE, backward |-> FALSE, left |-> FALSE,
                    right |-> FALSE, rotateX |-> 0, rotateY |-> 0, jump |-> FALSE]
    /\ isPanning = FALSE
    /\ isDestructionInProgress = FALSE
    /\ timer = TimerIdle
    /\ touch = [state |-> "none", x |-> 0]
    /\ last = Idle
    /\ ticks = 0
    /\ step = 0

(* Spec: the player looks around and touches the world while the first     *)
(* frames run.  Its inputs: a pan that turns the look down, a press on the *)
(* second slot of the inventory bar (the first is selected from the        *)
(* start), one of the four quarter turns createBlock draws from, animation *)
(* frames 400 ms apart.                                                    *)
PanDraws == { << 0, 81 >> }
SlotDraws == {2}
RotationDraws == {1}
FrameTimes == {400}

Frame == ticks < MaxTicks /\ Tick /\ UNCHANGED step
Select == \E i \in SlotDraws : selectBlockFromInventory(i) /\ UNCHANGED step
Down == \E sp \in ScreenPoints : TouchDown(sp) /\ UNCHANGED step
Tap == \E rot \in RotationDraws : TapEnd(rot) /\ UNCHANGED step
PanBegin == PanStart /\ UNCHANGED step
PanMove == \E v \in PanDraws : handleCameraPan(v[1], v[2]) /\ UNCHANGED step
PanFinish == PanEnd /\ UNCHANGED step
LongPress == LongPressStart /\ UNCHANGED step
Release == LongPressRelease /\ UNCHANGED step
Interrupt == LongPressCancel /\ UNCHANGED step
Animation == \E dt \in FrameTimes : AnimationFrame(dt) /\ UNCHANGED step

Next ==
    \/ Frame
    \/ Select
    \/ Down
    \/ Tap
    \/ PanBegin
    \/ PanMove
    \/ PanFinish
    \/ LongPress
    \/ Release
    \/ Interrupt
    \/ Animation

Spec == Init /\ [][Next]_vars

-----------------------------------------------------------------------------
(* SpecScenario: one recorded session, input by input, with the quarter    *)
(* turns of the placed blocks left open.  The player falls from the spawn  *)
(* point, builds a two-block pillar in front of the landing column on the  *)
(* way down, lands, walks to the next column and back while a destruction  *)
(* session runs, walls itself in and taps the pillar from inside the block *)
(* it stands in, then holds the jump button.                               *)

Times(n, c) == [ i \in 1..n |-> c ]
In(c, a, b) == << [cmd |-> c, a |-> a, b |-> b] >>

LookDown == In("down", 0, 0) \o In("panBegin", 0, 0) \o In("panMove", 0, 81)
            \o In("tick", 0, 0) \o In("panEnd", 0, 0)
LookAhead == In("down", -9, 0) \o In("panBegin", 0, 0) \o In("panMove", 0, -81)
             \o In("tick", 0, 0) \o In("panEnd", 0, 0)
TapAt(sp) == In("down", sp, 0) \o In("tap", 0, 0)

Script ==
    LookDown
    \o Times(18, In("tick", 0, 0)[1])
    \o TapAt(36)
    \o In("jump", 1, 0) \o Times(2, In("tick", 0, 0)[1]) \o In("jump", 0, 0)
    \o In("select", 2, 0) \o TapAt(36)
    \o Times(25, In("tick", 0, 0)[1])
    \o In("down", -9, 0) \o In("longPress", 0, 0)
    \o In("stick", -10, 0) \o Times(6, In("tick", 0, 0)[1])
    \o In("animation", 400, 0) \o In("animation", 400, 0)
    \o In("cancel", 0, 0)
    \o In("stick", 10, 0) \o Times(6, In("tick", 0, 0)[1]) \o In("stickRelease", 0, 0)
    \o In("select", 3, 0) \o TapAt(-9) \o In("select", 4, 0) \o TapAt(-9)
    \o LookAhead
    \o In("select", 5, 0) \o TapAt(0)
    \o In("down", 0, 0) \o In("longPress", 0, 0) \o In("release", 0, 0)
    \o In("jump", 1, 0) \o Times(8, In("tick", 0, 0)[1]) \o In("jump", 0, 0)

Cmd == IF step < Len(Script) THEN Script[step + 1] ELSE In("end", 0, 0)[1]
Advance == step' = step + 1

ScriptTick == Cmd.cmd = "tick" /\ Tick /\ Advance
ScriptStick == Cmd.cmd = "stick" /\ handleMovementJoystick(Cmd.a, Cmd.b) /\ Advance
ScriptStickRelease == Cmd.cmd = "stickRelease" /\ handleJoystickRelease /\ Advance
ScriptJump == Cmd.cmd = "jump" /\ handleJump(Cmd.a = 1) /\ Advance
ScriptSelect == Cmd.cmd = "select" /\ selectBlockFromInventory(Cmd.a) /\ Advance
ScriptDown == Cmd.cmd = "down" /\ TouchDown(Cmd.a) /\ Advance
ScriptTap == Cmd.cmd = "tap" /\ (\E rot \in 0..3 : TapEnd(rot)) /\ Advance
ScriptPanBegin == Cmd.cmd = "panBegin" /\ PanStart /\ Advance
ScriptPanMove == Cmd.cmd = "panMove" /\ handleCameraPan(Cmd.a, Cmd.b) /\ Advance
ScriptPanEnd == Cmd.cmd = "panEnd" /\ PanEnd /\ Advance
ScriptLongPress == Cmd.cmd = "longPress" /\ LongPressStart /\ Advance
ScriptRelease == Cmd.cmd = "release" /\ LongPressRelease /\ Advance
ScriptCancel == Cmd.cmd = "cancel" /\ LongPressCancel /\ Advance
ScriptAnimation == Cmd.cmd = "animation" /\ AnimationFrame(Cmd.a) /\ Advance

NextScenario ==
    \/ ScriptTick
    \/ ScriptStick
    \/ ScriptStickRelease
    \/ ScriptJump
    \/ ScriptSelect
    \/ ScriptDown
    \/ ScriptTap
    \/ ScriptPanBegin
    \/ ScriptPanMove
    \/ ScriptPanEnd
    \/ ScriptLongPress
    \/ ScriptRelease
    \/ ScriptCancel
    \/ ScriptAnimation

SpecScenario == Init /\ [][NextScenario]_vars

-----------------------------------------------------------------------------
(* SpecPlayer: the player moves while the frame loop runs and the world    *)
(* stays as generated.  Its inputs: the joystick pushed fully left or      *)
(* right, its release, the jump button pressed and let go.                 *)

\* frames the animation loop runs in a behaviour of SpecPlayer
MaxPlayerTicks == 26

StickDraws == { << -10, 0 >>, << 10, 0 >> }

PlayerFrame == ticks < MaxPlayerTicks /\ Tick /\ UNCHANGED step
PlayerStick == \E v \in StickDraws : handleMovementJoystick(v[1], v[2]) /\ UNCHANGED step
PlayerStickRelease == handleJoystickRelease /\ UNCHANGED step
PlayerJump == \E value \in BOOLEAN : handleJump(value) /\ UNCHANGED step

NextPlayer ==
    \/ PlayerFrame
    \/ PlayerStick
    \/ PlayerStickRelease
    \/ PlayerJump

SpecPlayer == Init /\ [][NextPlayer]_vars

-----------------------------------------------------------------------------
(* SpecLook: the player looks around while the frame loop runs.  Its       *)
(* inputs: touches on the vertical centre line of the screen and pans of   *)
(* every size, from a quarter turn a frame to more than the whole range of *)
(* the pitch in one frame.                                                 *)

\* frames the animation loop runs in a behaviour of SpecLook
MaxLookTicks == 5

LookDraws == { -1, 0, 1 } \X { -200, -162, -81, 0, 81, 162, 200 }

LookFrame == ticks < MaxLookTicks /\ Tick /\ UNCHANGED step
LookTouch == \E sp \in ScreenPoints : TouchDown(sp) /\ UNCHANGED step
LookPanBegin == PanStart /\ UNCHANGED step
LookPanMove == \E v \in LookDraws : handleCameraPan(v[1], v[2]) /\ UNCHANGED step
LookPanFinish == PanEnd /\ UNCHANGED step

NextLook ==
    \/ LookFrame
    \/ LookTouch
    \/ LookPanBegin
    \/ LookPanMove
    \/ LookPanFinish

SpecLook == Init /\ [][NextLook]_vars

-----------------------------------------------------------------------------
(* SpecTerrain: generateTerrain builds the world of the source, 10 x 10    *)
(* columns, one pass of its double loop a step; step counts the columns    *)
(* done.  Math.random() < 0.05 is left open for every column that may      *)
(* carry a tree, up to MaxTrees trees.                                     *)

\* trees generateTerrain plants in a behaviour of SpecTerrain
MaxTrees == 1

\* what generateTree draws in SpecTerrain: every trunk height, the leaf
\* height growing with it, no leaf skipped
TerrainTreeDraws ==
    { d \in TreeDraws : d.leafHeight = d.trunkHeight \div 2 + 1 /\ d.skipSeed = 0 }

\* the test of lines 801-807 without the four comparisons with the edges
mayPlantTreeAnywhere(x, z) ==
    ~ RockyOutcrop[x + 1][z + 1]

\* the test of lines 801-807 without its draw of Math.random
mayPlantTree(x, z) ==
    /\ ~ RockyOutcrop[x + 1][z + 1]
    /\ x > 2 /\ x < FullWorldSize - 3
    /\ z > 2 /\ z < FullWorldSize - 3

\* the columns of bs that carry a trunk
trunks(bs) == { << Cell(bs[i].position)[1], Cell(bs[i].position)[3] >> :
                  i \in { j \in 1..Len(bs) : bs[j].type = "wood" } }

InitTerrain ==
    /\ blocks = << >>
    /\ nextId = 1
    /\ highlightedBlockRef = 0
    /\ inventory = [ i \in 1..6 |->
                       [ type |-> << "grass", "dirt", "stone", "bedrock", "wood", "leaves" >>[i],
                         count |-> InitialCount ] ]
    /\ selectedBlockIndex = 1
    /\ camera = [x |-> (FullWorldSize * BLOCK_SIZE) \div 2, y |-> SpawnHeight,
                 z |-> (FullWorldSize * BLOCK_SIZE) \div 2]
    /\ eulerRef = [yaw |-> 0, pitch |-> 0, roll |-> 0]
    /\ playerVelocity = 0
    /\ playerOnGround = FALSE
    /\ moveState = [forward |-> FALSE, backward |-> FALSE, left |-> FALSE,
                    right |-> FALSE, rotateX |-> 0, rotateY |-> 0, jump |-> FALSE]
    /\ isPanning = FALSE
    /\ isDestructionInProgress = FALSE
    /\ timer = TimerIdle
    /\ touch = [state |-> "none", x |-> 0]
    /\ last = Idle
    /\ ticks = 0
    /\ step = 0

\* the pass of the double loop for column step
GenerateColumn ==
    /\ step < FullWorldSize * FullWorldSize
    /\ LET x == step \div FullWorldSize
           z == step % FullWorldSize
       IN  \E seed \in RotSeeds,
              trees \in { << >> } \cup { [ c \in { << x, z >> } |-> d ] : d \in TerrainTreeDraws } :
             /\ trees # << >> =>
                   mayPlantTree(x, z) /\ Cardinality(trunks(blocks)) < MaxTrees
             /\ \E created \in { generateColumn(x, z, trees) } :
                    /\ blocks' = blocks \o
                          [ i \in 1..Len(created) |->
                              createBlock(nextId + i - 1, created[i].position, created[i].type,
                                          DrawnRotation(seed, nextId + i - 1)) ]
                    /\ nextId' = nextId + Len(created)
    /\ step' = step + 1
    /\ UNCHANGED << highlightedBlockRef, inventory, selectedBlockIndex, player, moveState,
                    isPanning, isDestructionInProgress, timer, touch, last >>

SpecTerrain == InitTerrain /\ [][GenerateColumn]_vars

-----------------------------------------------------------------------------
(* The properties.                                                         *)

Ids(bs) == { bs[i].id : i \in 1..Len(bs) }
Highlighted(bs) == { bs[i].id : i \in { j \in 1..Len(bs) : bs[j].highlightEdges } }
Selected == inventory[selectedBlockIndex]

\* the gesture steps: a long press that ends while its timer runs, the timer
\* reaching 800 ms, the press lifted after that, a pass of handleBlockSelection
EndsEarly == touch.state = "longPress" /\ timer.running /\ touch'.state = "none"
SessionCompletes == touch.state = "longPress" /\ timer.running /\ ~ timer'.running
                    /\ touch' = touch
LiftedAfterCompletion == touch.state = "longPress" /\ ~ timer.running
                         /\ touch'.state = "none"
HandlingPass == \/ touch.state = "none" /\ touch'.state = "began"
                \/ touch.state = "began" /\ touch'.state = "none"

\* C1: in every reachable state, the generated world included, no two blocks
\* of blocks.current have the same position.
C1_NoTwoBlocksShareAPosition ==
    \A i, j \in 1..Len(blocks) : i # j => blocks[i].position # blocks[j].position

\* C2: a destruction session that is released, moved away or interrupted
\* before its 800 ms have elapsed removes no block and leaves the inventory
\* as it was.
C2_EarlyEndRemovesNothing ==
    [][ EndsEarly => blocks' = blocks /\ inventory' = inventory ]_vars

\* C3: a destruction session that runs its full 800 ms removes exactly one
\* block, the targeted one, from its beginning to the release of the press:
\* the completion removes the target and nothing else, the release after it
\* removes nothing.
C3_CompletedSessionRemovesOneBlock ==
    [][ /\ SessionCompletes => Ids(blocks') = Ids(blocks) \ { timer.target }
        /\ LiftedAfterCompletion => Ids(blocks') = Ids(blocks) ]_vars

\* C4: whatever ticks, movement, jumps and look changes happen while the
\* session runs, the block removed at its completion is the block that was
\* targeted when it began.
C4_RemovedBlockIsTheTargetedOne ==
    [][ SessionCompletes => Ids(blocks) \ Ids(blocks') \subseteq { timer.target } ]_vars

\* C5: a placement whose target cell, the hit block's cell moved by the hit
\* face normal, already holds a block changes neither the number of blocks
\* nor any inventory count.
C5_OccupiedTargetIsNoOp ==
    (last.op = "add" /\ last.occupied) => ~ last.placed

\* C6: every slot count is >= 0 in every state, and while the selected
\* slot's count is 0 no step inserts a block or moves that count off 0.
C6_CountsNeverNegativeNorOverdrawn ==
    [][ /\ \A i \in 1..Len(inventory) :
              inventory[i].count >= 0 /\ inventory'[i].count >= 0
        /\ Selected.count = 0 =>
              /\ Len(blocks') <= Len(blocks)
              /\ inventory'[selectedBlockIndex].count = 0 ]_vars

C6_Witness ==
    /\ last.op = "highlight" /\ last.hit # 0
    /\ touch.state = "none"
    /\ Selected.count = 0

\* C7: a step that inserts a block appends exactly one block, of the type
\* of the selected slot, takes exactly 1 from that slot's count, and leaves
\* the other slots and the blocks that were there as they were.
C7_PlacementFrame ==
    [][ Len(blocks') > Len(blocks) =>
          /\ Len(blocks') = Len(blocks) + 1
          /\ SubSeq(blocks', 1, Len(blocks)) = blocks
          /\ blocks'[Len(blocks')].type = Selected.type
          /\ inventory' = [inventory EXCEPT ![selectedBlockIndex].count = @ - 1] ]_vars

C7_Witness == last.op = "add" /\ last.placed /\ Selected.count = InitialCount - 1

\* the position exactly n away from p
Exactly(p, n) == [ a \in 1..3 |-> [g |-> p[a].g + n[a], r |-> p[a].r] ]

\* C8: a successful placement puts the new block at exactly p + n, p the
\* position of the hit block and n the unit normal of the hit face, whatever
\* the quarter turn of the hit block.
C8_PlacedAtHitPositionPlusNormal ==
    (last.op = "add" /\ last.placed) =>
        blocks[Len(blocks)].position = Exactly(last.from, last.normal)

\* C9: in one pass of handleBlockSelection placing and highlighting exclude
\* each other: a pass that may place or does place leaves the highlight as
\* it is, a pass that changes the highlight inserts nothing and leaves the
\* inventory as it is.
C9_PlaceOrHighlightNeverBoth ==
    [][ HandlingPass =>
          /\ ( \/ touch.state = "began" /\ Selected.count > 0
               \/ Len(blocks') # Len(blocks)
               \/ inventory' # inventory )
             => /\ highlightedBlockRef' = highlightedBlockRef
                /\ Highlighted(blocks') = Highlighted(blocks)
          /\ ( \/ highlightedBlockRef' # highlightedBlockRef
               \/ Highlighted(blocks') # Highlighted(blocks) )
             => /\ Len(blocks') = Len(blocks)
                /\ inventory' = inventory ]_vars

C9_Witness ==
    /\ last.op = "add" /\ last.placed
    /\ last.ref # 0 /\ highlightedBlockRef = last.ref
    /\ Highlighted(blocks) = { last.ref }

\* C10: in every reachable state at most one block carries highlightEdges
\* and it is the block highlightedBlockRef refers to; highlighting another
\* block clears the highlight of the previous one.
C10_AtMostOneHighlight ==
    /\ Cardinality(Highlighted(blocks)) <= 1
    /\ \A i \in 1..Len(blocks) :
          blocks[i].highlightEdges => blocks[i].id = highlightedBlockRef

C10_Witness ==
    /\ last.op = "highlight"
    /\ last.ref # 0 /\ last.hit # 0 /\ last.hit # last.ref
    /\ last.ref \in Ids(blocks)
    /\ Highlighted(blocks) = { last.hit }

\* C11: in every reachable state highlightedBlockRef is null (0) or the id
\* of a block of blocks.current; the destruction that removes the highlighted
\* block clears the reference in the same step.
C11_HighlightRefersToAWorldBlock ==
    highlightedBlockRef # 0 => highlightedBlockRef \in Ids(blocks)

C11_Witness ==
    /\ last.op = "destroy" /\ last.hit # 0 /\ last.ref = last.hit
    /\ last.hit \notin Ids(blocks)
    /\ highlightedBlockRef = 0

\* a step of the frame loop
TickStep == ticks' = ticks + 1

\* C12: a tick that starts with the player off the ground and no jump intent
\* lowers playerVelocity.y by GRAVITY, unless a collision of that tick lands
\* the player (playerOnGround set, playerVelocity.y zeroed): the velocity
\* falls strictly tick after tick until then.
C12_FallingVelocityDecreases ==
    [][ (TickStep /\ ~ playerOnGround /\ ~ moveState.jump) =>
            \/ playerVelocity' = playerVelocity - GRAVITY
            \/ playerOnGround' /\ playerVelocity' = 0 ]_vars

C12_Witness ==
    /\ ticks = 5 /\ ~ playerOnGround /\ ~ moveState.jump
    /\ playerVelocity = - 5 * GRAVITY

\* C13: with the player on the ground, a jump intent, given by handleJump or
\* held into the next tick, leaves playerVelocity.y at JUMP_FORCE and
\* playerOnGround false; a tick that starts and ends off the ground lowers
\* playerVelocity.y by GRAVITY.
C13_JumpThenFall ==
    [][ /\ (playerOnGround /\ ~ moveState.jump /\ moveState'.jump)
              => (playerVelocity' = JUMP_FORCE /\ ~ playerOnGround')
        /\ (TickStep /\ playerOnGround /\ moveState.jump)
              => (playerVelocity' = JUMP_FORCE /\ ~ playerOnGround')
        /\ (TickStep /\ ~ playerOnGround /\ ~ playerOnGround')
              => playerVelocity' = playerVelocity - GRAVITY ]_vars

\* C14: playerVelocity.y becomes JUMP_FORCE only in a step that starts with
\* playerOnGround true, and a tick that does not end in a landing lowers
\* playerVelocity.y by GRAVITY exactly when it starts with playerOnGround
\* false.
C14_OnGroundGatesJumpAndGravity ==
    [][ /\ (playerVelocity' = JUMP_FORCE /\ playerVelocity # JUMP_FORCE)
              => playerOnGround
        /\ (TickStep /\ ~ (playerOnGround' /\ playerVelocity' = 0))
              => ((playerVelocity' = playerVelocity - GRAVITY) <=> ~ playerOnGround) ]_vars

C14_Witness ==
    /\ ticks > 20 /\ ticks < MaxPlayerTicks
    /\ moveState.jump /\ ~ playerOnGround
    /\ playerVelocity = JUMP_FORCE

\* blockBox.max.y: the height of the top face of block b
blockTop(b) == Cell(b.position)[2] * BLOCK_SIZE + BLOCK_SIZE \div 2

\* the test of lines 262-265 for block b in the frame about to run
isLanding(b) ==
    /\ intersectsBox(playerNewPosition, b)
    /\ newVelocity <= 0
    /\ camera.y > Cell(b.position)[2] * BLOCK_SIZE + BLOCK_SIZE

\* C15: a tick in which the box of a block intersects the candidate box of
\* the player, playerVelocity.y is <= 0 and camera.position.y before the move
\* is above the top face of that block, is a landing: it commits the height
\* of that top face plus PLAYER_HEIGHT / 2 to camera.position.y, zeroes
\* playerVelocity.y and sets playerOnGround.
C15_LandingSnapsToBlockTop ==
    [][ TickStep =>
          \A i \in 1..Len(blocks) :
             ( /\ intersectsBox(playerNewPosition, blocks[i])
               /\ newVelocity <= 0
               /\ camera.y > blockTop(blocks[i]) )
             => /\ camera'.y = blockTop(blocks[i]) + PLAYER_HEIGHT \div 2
                /\ playerVelocity' = 0
                /\ playerOnGround' ]_vars

\* C16: a tick whose collision loop flags a horizontal collision leaves
\* camera.position.x and .z as they were, a tick that flags none commits the
\* x and z of the candidate position; either way camera.position.y takes
\* the candidate y, snapped by the landings of the tick if there are any.
C16_HorizontalCollisionKeepsXZ ==
    [][ TickStep =>
          LET flagged == \E i \in 1..Len(blocks) :
                            /\ intersectsBox(playerNewPosition, blocks[i])
                            /\ ~ isLanding(blocks[i])
              snaps == { Cell(blocks[i].position)[2] * BLOCK_SIZE + BLOCK_SIZE
                            + PLAYER_HEIGHT \div 2 :
                         i \in { j \in 1..Len(blocks) : isLanding(blocks[j]) } }
          IN  /\ flagged => camera'.x = camera.x /\ camera'.z = camera.z
              /\ ~ flagged => /\ camera'.x = playerNewPosition.x
                              /\ camera'.z = playerNewPosition.z
              /\ camera'.y \in (IF snaps = {} THEN { playerNewPosition.y } ELSE snaps) ]_vars

C16_Witness ==
    /\ last.collided
    /\ moveState.left /\ ~ moveState.right
    /\ camera.x > WORLD_SIZE * BLOCK_SIZE - BLOCK_SIZE \div 2

\* C17: in every reachable state, after every tick and whatever the pans
\* were, the pitch eulerRef.x is within -maxVerticalRotation ..
\* maxVerticalRotation (81 degrees) and the roll eulerRef.z is 0.
C17_PitchClampedRollZero ==
    /\ eulerRef.pitch >= - maxVerticalRotation
    /\ eulerRef.pitch <= maxVerticalRotation
    /\ eulerRef.roll = 0

C17_Witness ==
    /\ last.op = "tick" /\ touch.state = "pan"
    /\ moveState.rotateY = -200
    /\ eulerRef.pitch = maxVerticalRotation

\* the blocks of bs in column (x, z)
column(bs, x, z) ==
    { i \in 1..Len(bs) : Cell(bs[i].position)[1] = x /\ Cell(bs[i].position)[3] = z }

\* C18: the generated 10 x 10 world has, in every column (x, z) of
\* 0..9 x 0..9, exactly one bedrock block, at y = bedrockLevel, and at the
\* height of the column a block of type grass or stone.
C18_BedrockAndTopPerColumn ==
    step = FullWorldSize * FullWorldSize =>
        \A x, z \in 0..(FullWorldSize - 1) :
            LET col == column(blocks, x, z)
                bedrock == { i \in col : blocks[i].type = "bedrock" }
            IN  /\ Cardinality(bedrock) = 1
                /\ \A i \in bedrock : blocks[i].position = P(x, bedrockLevel, z)
                /\ \E i \in col :
                      /\ blocks[i].position = P(x, BaseHeightFloor[x + 1][z + 1] - 2, z)
                      /\ blocks[i].type \in { "grass", "stone" }

C18_Witness ==
    /\ step = FullWorldSize * FullWorldSize
    /\ Cardinality(trunks(blocks)) = 1
    /\ \E i \in 1..Len(blocks) : blocks[i].type = "stone" /\ blocks[i].position[2].g > 0

\* C19: a tap while the selected slot holds 0 inserts no block and changes
\* no count; a highlight, a placement or a destruction whose ray hits no
\* block leaves blocks.current, the inventory and the highlighted block as
\* they are.
C19_MissAndEmptySlotAreNoOps ==
    [][ /\ (last'.op \in { "highlight", "add", "destroy" } /\ last'.hit = 0)
              => /\ blocks' = blocks
                 /\ inventory' = inventory
                 /\ highlightedBlockRef' = highlightedBlockRef
        /\ (touch.state = "began" /\ touch'.state = "none" /\ Selected.count = 0)
              => /\ Len(blocks') = Len(blocks)
                 /\ inventory' = inventory ]_vars

C19_Witness ==
    /\ last.op = "destroy" /\ last.hit = 0
    /\ highlightedBlockRef # 0
    /\ Selected.count = 0


\* C20: while a camera pan is active (isPanning true, from the step that
\* begins the pan to the step that ends it) no tap or long-press handling
\* takes effect: no handler highlights, places or destroys a block, the
\* world, the inventory and the highlight stay as they are, and no
\* destruction session starts, is cancelled or completes.
C20_PanExcludesBlockInteraction ==
    [][ (isPanning \/ isPanning')
          => /\ last'.op \notin { "highlight", "add", "destroy" }
             /\ blocks' = blocks
             /\ inventory' = inventory
             /\ highlightedBlockRef' = highlightedBlockRef
             /\ isDestructionInProgress' = isDestructionInProgress
             /\ ~ isDestructionInProgress
             /\ timer' = timer
             /\ ~ timer.running ]_vars

\* a pan that began on a highlighted block is turning the camera
C20_Witness ==
    /\ isPanning
    /\ touch.state = "pan"
    /\ moveState.rotateY # 0
    /\ highlightedBlockRef # 0


\* the block set of the world: which blocks there are, of which type and
\* where, the highlight mark on them left aside
WorldBlocks(bs) ==
    { [id |-> bs[i].id, type |-> bs[i].type, position |-> bs[i].position] : i \in 1..Len(bs) }

\* C21: the inventory changes only in a step that places a block, and the
\* blocks of the world change only in a step that places a block or in the
\* completion of a destruction session (its timer reaching 800 ms); every
\* other step (tick, joystick, jump, pan, highlight, slot selection, a
\* destruction that is cancelled or released early) leaves both as they
\* are, and no destruction changes an inventory count.
C21_OnlyPlacementAndCompletedDestructionMutate ==
    [][ /\ inventory' # inventory => last'.op = "add" /\ last'.placed
        /\ WorldBlocks(blocks') # WorldBlocks(blocks)
              => \/ last'.op = "add" /\ last'.placed
                 \/ SessionCompletes
        /\ last'.op = "destroy" => inventory' = inventory ]_vars


\* the wood blocks of bs in column (x, z)
woodOf(bs, x, z) == { i \in column(bs, x, z) : bs[i].type = "wood" }

\* C22: in the generated 10 x 10 world every tree stands on an interior
\* column (3 <= x <= WORLD_SIZE - 4 and 3 <= z <= WORLD_SIZE - 4) whose top
\* block is grass, and its trunk is 3 to 5 wood blocks, one in each of the
\* consecutive cells that begin one cell above the height of the column.
C22_TreesOnInteriorGrassColumns ==
    \A c \in trunks(blocks) :
        LET x == c[1]
            z == c[2]
            wood == woodOf(blocks, x, z)
            height == BaseHeightFloor[x + 1][z + 1] - 2
        IN  /\ 3 <= x /\ x <= FullWorldSize - 4
            /\ 3 <= z /\ z <= FullWorldSize - 4
            /\ \E i \in column(blocks, x, z) :
                  blocks[i].position = P(x, height, z) /\ blocks[i].type = "grass"
            /\ Cardinality(wood) \in 3..5
            /\ { blocks[i].position : i \in wood }
                  = { P(x, height + k, z) : k \in 1..Cardinality(wood) }

\* the world is complete and carries a tree with a trunk of 5 blocks
C22_Witness ==
    /\ step = FullWorldSize * FullWorldSize
    /\ \E c \in trunks(blocks) : Cardinality(woodOf(blocks, c[1], c[2])) = 5


\* C23: at the end of every tick, a player flagged on the ground has the
\* vertical velocity 0: the downward ray of the ground detection never
\* leaves playerOnGround true beside a velocity that is not 0.
C23_OnGroundMeansNoVerticalVelocity ==
    (last.op = "tick" /\ playerOnGround) => playerVelocity = 0


\* C24: the release of the movement joystick clears the four directional
\* intents and leaves the jump intent and the pending look delta (rotateX,
\* rotateY) as they were.
C24_StickReleaseKeepsJumpAndLook ==
    [][ last'.op = "release"
          => /\ ~ moveState'.forward /\ ~ moveState'.backward
             /\ ~ moveState'.left /\ ~ moveState'.right
             /\ moveState'.jump = moveState.jump
             /\ moveState'.rotateX = moveState.rotateX
             /\ moveState'.rotateY = moveState.rotateY ]_vars


\* C25: in the finished 10 x 10 world every block generateTerrain has
\* produced, the trunks and the leaves of its trees included, has whole
\* coordinates with 0 <= x < WORLD_SIZE, 0 <= z < WORLD_SIZE and y >= -7,
\* and every column holds a block at each y from -7 up to its height.
C25_BlocksInsideTheWorldAndNoGaps ==
    step = FullWorldSize * FullWorldSize =>
        /\ \A i \in 1..Len(blocks) :
              /\ \A k \in 1..3 : blocks[i].position[k].r = 0
              /\ Cell(blocks[i].position)[1] \in 0..(FullWorldSize - 1)
              /\ Cell(blocks[i].position)[3] \in 0..(FullWorldSize - 1)
              /\ Cell(blocks[i].position)[2] >= bedrockLevel
        /\ \A filled \in { { blocks[i].position : i \in 1..Len(blocks) } } :
              \A x, z \in 0..(FullWorldSize - 1) :
                  \A y \in bedrockLevel..(BaseHeightFloor[x + 1][z + 1] - 2) :
                      P(x, y, z) \in filled

\* the world is complete and the leaves of a tree on the innermost ring of
\* tree columns reach the column next to the edge
C25_Witness ==
    /\ step = FullWorldSize * FullWorldSize
    /\ \E i \in 1..Len(blocks) :
          /\ blocks[i].type = "leaves"
          /\ Cell(blocks[i].position)[1] \in { 1, FullWorldSize - 2 }

=============================================================================
